---- MODULE Spec2Model ----
(***************************************************************************)
(* State-machine model of the HUBX payment tracker (src/App.tsx,           *)
(* src/services/geminiService.ts, src/components/SpreadsheetRow.tsx).      *)
(*                                                                         *)
(* Encodings.                                                              *)
(*  - A JavaScript string is a sequence of one-character strings, so that  *)
(*    toLowerCase, trim and includes are computed, not assumed.            *)
(*  - An element of a weeks array is one of "true", "false", "undefined"   *)
(*    (a hole left by an assignment past the end) and "null" (what         *)
(*    JSON.stringify writes for a hole).                                   *)
(*  - A participant is a record [id, name, whatsapp, weeks, weeksIsArray]; *)
(*    weeksIsArray is FALSE for a parsed object whose weeks property is    *)
(*    missing or is not an array (weeks is then <<>> and means nothing).   *)
(*  - uuidv4() is modelled by a counter: the library's contract is that    *)
(*    it never returns the same identifier twice.                          *)
(***************************************************************************)
EXTENDS Integers, Sequences, FiniteSets, TLC

\* Program constants.
ITEMS_PER_PAGE == 20
SEED_ROWS == 50
WEEKS == 5

\* Bounds of the model.
MaxSteps == 3
MaxStored == 2
MaxStoredWeeks == 6
MaxWeekIndex == 6

VARIABLES
    app,          \* "mounting" after the first render, "open" once its effects
                  \* have run, "closed" after unload, "crashed" after a throw
    slot,         \* localStorage[LOCAL_STORAGE_KEY]
    data,         \* useState: the roster
    loading,      \* useState
    currentPage,  \* useState
    searchTerm,   \* useState
    timers,       \* pending setTimeout callbacks of the persist effect
    cleanup,      \* handle the persist effect's cleanup closure will clear
    version,      \* history: number of store changes (renders with a new data)
    sessionStart, \* history: version of the roster this page load began with
    nextId,       \* uuidv4 source
    steps,        \* number of user events so far (bounds the exploration)
    lastOp,       \* history: the handler that ran last, with its arguments
    apiKey,       \* process.env.API_KEY is set
    isAnalyzing,  \* useState
    analysisResult, \* useState ("null" or a text)
    analyses,     \* the analyzeParticipants calls awaited by handleAnalyze
    serviceCalls, \* history: number of generateContent requests sent
    generatedMessage, \* useState (NoMessage or an id and a text)
    messages,     \* the generateMessageForParticipant calls awaited
    lastRequest   \* history: id of the row whose message was requested last

mainVars == <<app, slot, data, loading, currentPage, searchTerm, timers, cleanup,
              version, nextId>>

aiVars == <<apiKey, isAnalyzing, analysisResult, analyses, serviceCalls,
            generatedMessage, messages, lastRequest>>

vars == <<mainVars, sessionStart, steps, lastOp, aiVars>>

-----------------------------------------------------------------------------
\* JavaScript strings.

EmptyStr == <<>>

\* useState<{id, text} | null>(null): the null of generatedMessage.
NoMessage == [id |-> 0, text |-> "null"]

ToLowerChar(c) ==
    CASE c = "A" -> "a"
      [] c = "N" -> "n"
      [] c = "B" -> "b"
      [] OTHER -> c

ToLowerCase(s) == [i \in DOMAIN s |-> ToLowerChar(s[i])]

\* String.prototype.includes: t occurs in s as a contiguous substring.
Includes(s, t) ==
    \E k \in 0..(Len(s) - Len(t)) : SubSeq(s, k + 1, k + Len(t)) = t

RECURSIVE TrimStart(_)
TrimStart(s) ==
    IF s # <<>> /\ Head(s) = " " THEN TrimStart(Tail(s)) ELSE s

RECURSIVE TrimEnd(_)
TrimEnd(s) ==
    IF s # <<>> /\ s[Len(s)] = " " THEN TrimEnd(SubSeq(s, 1, Len(s) - 1)) ELSE s

\* String.prototype.trim
Trim(s) == TrimEnd(TrimStart(s))

-----------------------------------------------------------------------------
\* Participants.

AllFalseWeeks == <<"false", "false", "false", "false", "false">>

Participant(id, name, whatsapp, weeks) ==
    [id |-> id, name |-> name, whatsapp |-> whatsapp, weeks |-> weeks,
     weeksIsArray |-> TRUE]

BlankRow(id) == Participant(id, EmptyStr, EmptyStr, AllFalseWeeks)

Ids(d) == {d[i].id : i \in DOMAIN d}

-----------------------------------------------------------------------------
\* The persisted slot: what localStorage.getItem and JSON.parse make of it.
\*   absent      getItem returns null
\*   empty       the empty string (falsy)
\*   unparseable JSON.parse throws
\*   notArray    parses to a value without a map method (null, {}, 0, ...)
\*   nullItem    parses to an array holding null (p.weeks throws)
\*   array       parses to an array of objects, in items

Slot(kind, items, ver) == [kind |-> kind, items |-> items, ver |-> ver]

\* A migration that pads and never cuts.
MigratePadOnly(p) ==
    IF p.weeksIsArray /\ Len(p.weeks) < WEEKS
    THEN [p EXCEPT !.weeks = p.weeks \o [i \in 1..(WEEKS - Len(p.weeks)) |-> "false"]]
    ELSE p

\* Migration logic of the initialize effect, for one parsed object.
Migrate(p) ==
    IF p.weeksIsArray
    THEN IF Len(p.weeks) < WEEKS
         THEN [p EXCEPT !.weeks = p.weeks \o [i \in 1..(WEEKS - Len(p.weeks)) |-> "false"]]
         ELSE IF Len(p.weeks) > WEEKS
              THEN [p EXCEPT !.weeks = SubSeq(p.weeks, 1, WEEKS)]
              ELSE p
    ELSE p

\* parsedData.map of the migration.
MigratedData(parsedData) == [i \in DOMAIN parsedData |-> Migrate(parsedData[i])]

\* initializeEmptyData: SEED_ROWS blank rows with fresh ids.
InitializeEmptyData(first) == [i \in 1..SEED_ROWS |-> BlankRow(first + i - 1)]

\* A catch block that logs and does not reseed.
LoadDataNoReseed(s, first) ==
    IF s.kind = "array"
    THEN [rows |-> MigratedData(s.items), next |-> first]
    ELSE IF s.kind \in {"absent", "empty"}
         THEN [rows |-> InitializeEmptyData(first), next |-> first + SEED_ROWS]
         ELSE [rows |-> <<>>, next |-> first]

\* The initialize effect's result: the roster handed to setData and the next
\* unused identifier.
LoadData(s, first) ==
    IF s.kind = "array"
    THEN [rows |-> MigratedData(s.items), next |-> first]
    ELSE [rows |-> InitializeEmptyData(first), next |-> first + SEED_ROWS]

\* JSON.stringify of the roster followed by JSON.parse: a hole or an undefined
\* element is written as null.
StringifyWeek(w) == IF w = "undefined" THEN "null" ELSE w

Stringify(d) ==
    [i \in DOMAIN d |->
        [d[i] EXCEPT !.weeks = [j \in DOMAIN d[i].weeks |-> StringifyWeek(d[i].weeks[j])]]]

-----------------------------------------------------------------------------
\* The persist effect (deps [data, loading]): its cleanup clears the timeout of
\* the previous run, then, unless loading, a new timeout is set whose callback
\* holds the roster of this render.

Timer(ver, snapshot) == [handle |-> ver, snapshot |-> snapshot]

ClearTimeout(ts, h) == {t \in ts : t.handle # h}

\* An effect that returns no cleanup: the previous timeout is never cleared.
PersistEffectNoCleanup(ts, h, isLoading, ver, d) ==
    IF isLoading
    THEN [timers |-> ts, cleanup |-> 0]
    ELSE [timers |-> ts \cup {Timer(ver, d)}, cleanup |-> ver]

\* An effect without the loading test: it sets its timeout in every run.
PersistEffectWhileLoading(ts, h, isLoading, ver, d) ==
    [timers |-> ClearTimeout(ts, h) \cup {Timer(ver, d)}, cleanup |-> ver]

PersistEffect(ts, h, isLoading, ver, d) ==
    IF isLoading
    THEN [timers |-> ClearTimeout(ts, h), cleanup |-> 0]
    ELSE [timers |-> ClearTimeout(ts, h) \cup {Timer(ver, d)}, cleanup |-> ver]

\* A render in which data changed identity: the effect runs again.
StoreChange(newData) ==
    LET e == PersistEffect(timers, cleanup, loading, version + 1, newData) IN
    /\ data' = newData
    /\ version' = version + 1
    /\ timers' = e.timers
    /\ cleanup' = e.cleanup

-----------------------------------------------------------------------------
\* Filtering and pagination.

CeilDiv(n, k) == (n + k - 1) \div k

Matches(item, lower) ==
    \/ Includes(ToLowerCase(item.name), lower)
    \/ Includes(item.whatsapp, lower)

FilteredData(d, term) ==
    IF term = EmptyStr THEN d
    ELSE SelectSeq(d, LAMBDA item : Matches(item, ToLowerCase(term)))

TotalPages(d, term) == CeilDiv(Len(FilteredData(d, term)), ITEMS_PER_PAGE)

Min(a, b) == IF a < b THEN a ELSE b

Max(a, b) == IF a > b THEN a ELSE b

\* A slice that starts one page too far.
PaginatedDataFromNextPage(d, term, page) ==
    LET f == FilteredData(d, term)
        start == page * ITEMS_PER_PAGE
    IN SubSeq(f, start + 1, Min(start + ITEMS_PER_PAGE, Len(f)))

\* Array.prototype.slice(start, start + ITEMS_PER_PAGE)
PaginatedData(d, term, page) ==
    LET f == FilteredData(d, term)
        start == (page - 1) * ITEMS_PER_PAGE
    IN SubSeq(f, start + 1, Min(start + ITEMS_PER_PAGE, Len(f)))

\* The page count shown in the footer.
DisplayedTotalPages(d, term) == Max(1, TotalPages(d, term))

\* stats: the rows counted as active (a truthy name or whatsapp).
IsActiveForStats(p) == p.name # EmptyStr \/ p.whatsapp # EmptyStr

\* weeks.filter(Boolean).length: the elements that are true (a hole, undefined
\* and null are falsy).
PaidWeeks(p) == Cardinality({j \in DOMAIN p.weeks : p.weeks[j] = "true"})

\* active.reduce((acc, curr) => acc + paid weeks of curr, 0)
RECURSIVE SumPaidWeeks(_)
SumPaidWeeks(rows) ==
    IF rows = <<>> THEN 0 ELSE PaidWeeks(Head(rows)) + SumPaidWeeks(Tail(rows))

\* Math.round of the quotient num / den of two naturals (halves round up).
MathRound(num, den) == (2 * num + den) \div (2 * den)

\* stats: count and percentage shown in the header.
Stats(d) ==
    LET active == SelectSeq(d, IsActiveForStats)
        totalWeeks == Len(active) * WEEKS
        paidWeeks == SumPaidWeeks(active)
    IN [count |-> Len(active),
        percentage |-> IF totalWeeks = 0 THEN 0 ELSE MathRound(paidWeeks * 100, totalWeeks)]

\* App's render reads weeks.filter of every active row (stats) and
\* SpreadsheetRow's reads weeks.every of every row shown: a TypeError when
\* weeks is no array.
RenderThrows(d, term, page) ==
    \/ \E i \in DOMAIN d : IsActiveForStats(d[i]) /\ ~d[i].weeksIsArray
    \/ LET shown == PaginatedData(d, term, page)
       IN \E i \in DOMAIN shown : ~shown[i].weeksIsArray

-----------------------------------------------------------------------------
\* Mount: the effects of the first render run, the persist effect with the
\* loading and the data of that render (true and the empty roster).
MountEffects ==
    /\ app = "mounting"
    /\ LET e == PersistEffect(timers, cleanup, loading, version, data)
       IN timers' = e.timers /\ cleanup' = e.cleanup
    /\ app' = "open"
    /\ lastOp' = [kind |-> "mount"]
    /\ UNCHANGED <<slot, data, loading, currentPage, searchTerm, version, nextId,
                   sessionStart, steps, aiVars>>

\* The initialize effect, then the render that shows the loaded roster and
\* its persist effect. A render that throws unmounts the application before
\* any effect of that render runs.
InitializeData ==
    /\ app = "open"
    /\ loading
    /\ LET loaded == LoadData(slot, nextId)
           e == PersistEffect(timers, cleanup, FALSE, version + 1, loaded.rows)
       IN /\ data' = loaded.rows
          /\ nextId' = loaded.next
          /\ version' = version + 1
          /\ sessionStart' = version + 1
          /\ IF RenderThrows(loaded.rows, searchTerm, currentPage)
             THEN app' = "crashed" /\ UNCHANGED <<timers, cleanup>>
             ELSE app' = app /\ timers' = e.timers /\ cleanup' = e.cleanup
    /\ loading' = FALSE
    /\ lastOp' = [kind |-> "init"]
    /\ UNCHANGED <<slot, currentPage, searchTerm, steps, aiVars>>

-----------------------------------------------------------------------------
\* Inputs of the handlers.

NameInputs == {EmptyStr, <<"A", "n", "a">>, <<" ">>}

WhatsappInputs == {EmptyStr, <<"9", "9">>}

SearchInputs == {EmptyStr, <<"a", "n">>}

FlagInputs == {"true", "false"}

WeekIndexInputs == {-1, 0, WEEKS - 1, MaxWeekIndex}

\* The ids a handler is called with: the first row's, and 0, an id no row has
\* (identifiers start at 1).
TargetIds(d) ==
    {0} \cup (IF d = <<>> THEN {} ELSE {d[1].id})

UserEvent(op) ==
    /\ app = "open"
    /\ ~loading
    /\ steps < MaxSteps
    /\ steps' = steps + 1
    /\ lastOp' = op
    /\ UNCHANGED <<sessionStart, aiVars>>

-----------------------------------------------------------------------------
\* handleUpdate.

\* newWeeks[weekIndex] = value on a copy of the array: an index past the end
\* grows the array and leaves holes, a negative index sets a property that is
\* no element.
SetIndex(arr, idx, value) ==
    IF idx < 0 THEN arr
    ELSE [i \in 1..(IF idx + 1 > Len(arr) THEN idx + 1 ELSE Len(arr)) |->
            IF i = idx + 1 THEN value
            ELSE IF i <= Len(arr) THEN arr[i]
            ELSE "undefined"]

\* A map that forgets the id test and writes the flag into every row.
UpdateWeekEveryRow(d, id, weekIndex, value) ==
    [k \in DOMAIN d |-> [d[k] EXCEPT !.weeks = SetIndex(d[k].weeks, weekIndex, value)]]

UpdateWeek(d, id, weekIndex, value) ==
    [k \in DOMAIN d |->
        IF d[k].id = id
        THEN [d[k] EXCEPT !.weeks = SetIndex(d[k].weeks, weekIndex, value)]
        ELSE d[k]]

\* A map that forgets the id test and writes the field into every row.
UpdateFieldEveryRow(d, id, field, value) ==
    [k \in DOMAIN d |->
        IF field = "name" THEN [d[k] EXCEPT !.name = value]
        ELSE [d[k] EXCEPT !.whatsapp = value]]

UpdateField(d, id, field, value) ==
    [k \in DOMAIN d |->
        IF d[k].id = id
        THEN IF field = "name" THEN [d[k] EXCEPT !.name = value]
             ELSE [d[k] EXCEPT !.whatsapp = value]
        ELSE d[k]]

\* [...item.weeks] throws when weeks is no array: the updater's exception
\* unmounts the application.
SpreadThrows(d, id) == \E k \in DOMAIN d : d[k].id = id /\ ~d[k].weeksIsArray

HandleUpdateWeek(id, weekIndex, value) ==
    /\ UserEvent([kind |-> "week", id |-> id, weekIndex |-> weekIndex, value |-> value])
    /\ IF SpreadThrows(data, id)
       THEN /\ app' = "crashed"
            /\ timers' = {}
            /\ UNCHANGED <<data, version, cleanup>>
       ELSE /\ StoreChange(UpdateWeek(data, id, weekIndex, value))
            /\ UNCHANGED app
    /\ UNCHANGED <<slot, loading, currentPage, searchTerm, nextId>>

HandleUpdateField(id, field, value) ==
    /\ UserEvent([kind |-> field, id |-> id, value |-> value])
    /\ StoreChange(UpdateField(data, id, field, value))
    /\ UNCHANGED <<app, slot, loading, currentPage, searchTerm, nextId>>

-----------------------------------------------------------------------------
\* handleDelete, handleAddRow, handleClearEmpty.

\* A filter with the test inverted: it keeps the row it should remove.
DeleteRowInverted(d, id) == SelectSeq(d, LAMBDA item : item.id = id)

DeleteRow(d, id) == SelectSeq(d, LAMBDA item : item.id # id)

HandleDelete(id, confirmed) ==
    /\ UserEvent([kind |-> "delete", id |-> id, confirmed |-> confirmed])
    /\ IF confirmed
       THEN StoreChange(DeleteRow(data, id))
       ELSE UNCHANGED <<data, version, timers, cleanup>>
    /\ UNCHANGED <<app, slot, loading, currentPage, searchTerm, nextId>>

\* A row built with the identifier handed out just before.
NewRowReusedId(id) == BlankRow(id - 1)

NewRow(id) == BlankRow(id)

AddPage(d) == CeilDiv(Len(d) + 1, ITEMS_PER_PAGE)

HandleAddRow ==
    /\ UserEvent([kind |-> "add"])
    /\ StoreChange(Append(data, NewRow(nextId)))
    /\ nextId' = nextId + 1
    /\ currentPage' = AddPage(data)
    /\ UNCHANGED <<app, slot, loading, searchTerm>>

\* A test that does not trim.
IsNonEmptyRowUntrimmed(p) == p.name # EmptyStr \/ p.whatsapp # EmptyStr

IsNonEmptyRow(p) == Trim(p.name) # EmptyStr \/ Trim(p.whatsapp) # EmptyStr

ClearEmpty(d) == SelectSeq(d, IsNonEmptyRow)

HandleClearEmpty(confirmed) ==
    /\ UserEvent([kind |-> "clear", confirmed |-> confirmed])
    /\ IF confirmed
       THEN StoreChange(ClearEmpty(data))
       ELSE UNCHANGED <<data, version, timers, cleanup>>
    /\ UNCHANGED <<app, slot, loading, currentPage, searchTerm, nextId>>

-----------------------------------------------------------------------------
\* An onChange that sets the term and leaves the page.
SetSearchTermKeepPage(t) ==
    /\ UserEvent([kind |-> "search", term |-> t, page |-> currentPage])
    /\ searchTerm' = t
    /\ UNCHANGED <<app, slot, data, loading, currentPage, timers, cleanup, version, nextId>>

\* onChange of the search input (lastOp keeps the page it was typed on).
SetSearchTerm(t) ==
    /\ UserEvent([kind |-> "search", term |-> t, page |-> currentPage])
    /\ searchTerm' = t
    /\ currentPage' = 1
    /\ UNCHANGED <<app, slot, data, loading, timers, cleanup, version, nextId>>

\* The pagination buttons; each is disabled in the states its guard excludes.
PrevPage ==
    /\ currentPage # 1
    /\ UserEvent([kind |-> "prev"])
    /\ currentPage' = Max(1, currentPage - 1)
    /\ UNCHANGED <<app, slot, data, loading, searchTerm, timers, cleanup, version, nextId>>

NextPage ==
    /\ currentPage # TotalPages(data, searchTerm)
    /\ TotalPages(data, searchTerm) # 0
    /\ UserEvent([kind |-> "next"])
    /\ currentPage' = Min(TotalPages(data, searchTerm), currentPage + 1)
    /\ UNCHANGED <<app, slot, data, loading, searchTerm, timers, cleanup, version, nextId>>

-----------------------------------------------------------------------------
\* The timeout of the persist effect fires: localStorage.setItem of the roster
\* its closure holds.
SaveTimerFires ==
    /\ app = "open"
    /\ \E t \in timers :
        /\ slot' = Slot("array", Stringify(t.snapshot), t.handle)
        /\ timers' = timers \ {t}
    /\ lastOp' = [kind |-> "save"]
    /\ UNCHANGED <<app, data, loading, currentPage, searchTerm, cleanup, version,
                   nextId, sessionStart, steps, aiVars>>

\* The page is closed or reloaded: the JavaScript state and the pending
\* timeouts are gone, the slot stays.
ClosePage ==
    /\ app = "open"
    /\ ~loading
    /\ steps < MaxSteps
    /\ steps' = steps + 1
    /\ app' = "closed"
    /\ timers' = {}
    /\ cleanup' = 0
    /\ data' = <<>>
    /\ loading' = TRUE
    /\ currentPage' = 1
    /\ searchTerm' = EmptyStr
    /\ lastOp' = [kind |-> "close"]
    /\ UNCHANGED <<slot, version, nextId, sessionStart, aiVars>>

\* The page is opened again: first render of a new App.
OpenPage ==
    /\ app = "closed"
    /\ steps < MaxSteps
    /\ steps' = steps + 1
    /\ app' = "mounting"
    /\ lastOp' = [kind |-> "open"]
    /\ UNCHANGED <<slot, data, loading, currentPage, searchTerm, timers, cleanup,
                   version, nextId, sessionStart, aiVars>>

-----------------------------------------------------------------------------
\* Slots the application itself (this version or the four-week one before it)
\* has written, and the first state of a page load.

Ana == <<"A", "n", "a">>

StoredRosters ==
    { <<Participant(1, Ana, <<"9", "9">>, <<"true", "true", "true", "true">>),
        Participant(2, EmptyStr, EmptyStr, <<"false", "false", "false", "false">>)>>,
      <<Participant(1, Ana, EmptyStr, <<"true", "false", "false", "false", "true">>)>> }

ProgramSlots ==
    {Slot("absent", <<>>, 0)} \cup {Slot("array", r, 0) : r \in StoredRosters}

FirstRender(s) ==
    /\ app = "mounting"
    /\ slot = s
    /\ data = <<>>
    /\ loading = TRUE
    /\ currentPage = 1
    /\ searchTerm = EmptyStr
    /\ timers = {}
    /\ cleanup = 0
    /\ version = 0
    /\ sessionStart = 0
    /\ nextId = MaxStored + 1
    /\ steps = 0
    /\ lastOp = [kind |-> "none"]
    /\ isAnalyzing = FALSE
    /\ analysisResult = "null"
    /\ analyses = <<>>
    /\ serviceCalls = 0
    /\ generatedMessage = NoMessage
    /\ messages = <<>>
    /\ lastRequest = 0

Init == \E s \in ProgramSlots : FirstRender(s) /\ apiKey = TRUE

\* The calls the rows and the toolbar make.
WeekClicked ==
    \E id \in TargetIds(data), i \in WeekIndexInputs, v \in FlagInputs :
        HandleUpdateWeek(id, i, v)

NameTyped == \E id \in TargetIds(data), v \in NameInputs : HandleUpdateField(id, "name", v)

WhatsappTyped ==
    \E id \in TargetIds(data), v \in WhatsappInputs : HandleUpdateField(id, "whatsapp", v)

DeleteClicked == \E id \in TargetIds(data), c \in BOOLEAN : HandleDelete(id, c)

ClearClicked == \E c \in BOOLEAN : HandleClearEmpty(c)

SearchTyped == \E t \in SearchInputs : SetSearchTerm(t)

Next ==
    \/ MountEffects
    \/ InitializeData
    \/ WeekClicked
    \/ NameTyped
    \/ WhatsappTyped
    \/ DeleteClicked
    \/ HandleAddRow
    \/ ClearClicked
    \/ SearchTyped
    \/ PrevPage
    \/ NextPage
    \/ SaveTimerFires
    \/ ClosePage
    \/ OpenPage

Spec == Init /\ [][Next]_vars

-----------------------------------------------------------------------------
\* Loading an arbitrary persisted value: every shape JSON.parse can hand to the
\* migration, with identifiers as the application assigns them (distinct).

WeekPatterns(n) ==
    { [i \in 1..n |-> "true"], [i \in 1..n |-> "false"],
      [i \in 1..n |-> IF i % 2 = 1 THEN "true" ELSE "false"] }

StoredWeeks == UNION {WeekPatterns(n) : n \in 0..MaxStoredWeeks}

\* Parsed objects, before their identifiers: weeks an array of any length, or
\* no array (with and without a name: a named row is read by stats).
StoredItems ==
    { Participant(0, Ana, EmptyStr, w) : w \in StoredWeeks }
        \cup { [Participant(0, n, EmptyStr, <<>>) EXCEPT !.weeksIsArray = FALSE] :
                    n \in {EmptyStr, Ana} }

\* The rosters of at most MaxStored rows over a set of rows, row i with id i.
Rosters(rows) ==
    UNION { { [i \in 1..n |-> [f[i] EXCEPT !.id = i]] : f \in [1..n -> rows] } :
            n \in 0..MaxStored }

ArbitraryRosters == Rosters(StoredItems)

ArbitrarySlots ==
    {Slot(k, <<>>, 0) : k \in {"absent", "empty", "unparseable", "notArray", "nullItem"}}
        \cup {Slot("array", r, 0) : r \in ArbitraryRosters}

InitLoad == \E s \in ArbitrarySlots : FirstRender(s) /\ apiKey = TRUE

NextLoad ==
    \/ MountEffects
    \/ InitializeData
    \/ SaveTimerFires

SpecLoad == InitLoad /\ [][NextLoad]_vars

-----------------------------------------------------------------------------
\* Rosters for the derived views and the advisory client: the state a page load
\* reaches from a slot holding the roster.

InputNames == {EmptyStr, <<" ">>, Ana, <<"b", "A", "N">>}

InputWhatsapps == {EmptyStr, <<"1", "9", "9">>, <<"A", "9">>}

InputRows ==
    {Participant(0, n, w, AllFalseWeeks) : n \in InputNames, w \in InputWhatsapps}

InputRosters == Rosters(InputRows)

Loaded(r) ==
    /\ app = "open"
    /\ slot = Slot("array", r, 0)
    /\ data = r
    /\ loading = FALSE
    /\ currentPage = 1
    /\ searchTerm = EmptyStr
    /\ timers = {Timer(1, r)}
    /\ cleanup = 1
    /\ version = 1
    /\ sessionStart = 1
    /\ nextId = MaxStored + 1
    /\ steps = 0
    /\ lastOp = [kind |-> "init"]
    /\ isAnalyzing = FALSE
    /\ analysisResult = "null"
    /\ analyses = <<>>
    /\ serviceCalls = 0
    /\ generatedMessage = NoMessage
    /\ messages = <<>>
    /\ lastRequest = 0

FilterTerms ==
    {EmptyStr, <<"9", "9">>, <<"a", "n">>, <<"A", "N">>, <<"A">>, <<"9">>}

InitFilter == \E r \in InputRosters : Loaded(r) /\ apiKey = TRUE

NextFilter == \E t \in FilterTerms : SetSearchTerm(t)

SpecFilter == InitFilter /\ [][NextFilter]_vars

-----------------------------------------------------------------------------
\* The advisory client (geminiService.ts) and handleAnalyze.

NotEnoughData == "Nao ha dados suficientes para analisar. Preencha a planilha com alguns nomes."

AnalyzeError == "Erro ao conectar com a IA. Verifique sua chave de API ou tente novamente mais tarde."

ResponseText == "response.text"

\* analyzeParticipants: the rows sent to the service.
ActiveParticipants(participants) == SelectSeq(participants, IsNonEmptyRow)

\* An analyzeParticipants without its try/catch: the error of getClient
\* rejects the promise.
AnalyzeParticipantsNoCatch(participants, hasKey) ==
    IF ~hasKey
    THEN [stage |-> "rejected", result |-> "null", sent |-> 0]
    ELSE IF Len(ActiveParticipants(participants)) = 0
         THEN [stage |-> "settled", result |-> NotEnoughData, sent |-> 0]
         ELSE [stage |-> "request", result |-> "null", sent |-> 1]

\* analyzeParticipants up to its first await or return: getClient, the filter,
\* the empty check, then the request. sent counts generateContent requests.
AnalyzeParticipants(participants, hasKey) ==
    IF ~hasKey
    THEN [stage |-> "settled", result |-> AnalyzeError, sent |-> 0]
    ELSE IF Len(ActiveParticipants(participants)) = 0
         THEN [stage |-> "settled", result |-> NotEnoughData, sent |-> 0]
         ELSE [stage |-> "request", result |-> "null", sent |-> 1]

\* The continuation of an await whose promise is settled is a microtask: it
\* runs before the next event, response or click, is handled.
ContinuationPending ==
    \/ \E i \in DOMAIN analyses : analyses[i].stage = "settled"
    \/ \E i \in DOMAIN messages : messages[i].stage = "settled"

\* A handleAnalyze behind a button that is never disabled.
HandleAnalyzeNotDisabled ==
    /\ app = "open"
    /\ ~loading
    /\ ~ContinuationPending
    /\ generatedMessage = NoMessage
    /\ steps < MaxSteps
    /\ steps' = steps + 1
    /\ LET call == AnalyzeParticipants(data, apiKey)
       IN /\ analyses' = Append(analyses,
                [stage |-> call.stage, result |-> call.result, sent |-> call.sent,
                 active |-> Len(ActiveParticipants(data))])
          /\ serviceCalls' = serviceCalls + call.sent
    /\ isAnalyzing' = TRUE
    /\ analysisResult' = "null"
    /\ lastOp' = [kind |-> "analyze"]
    /\ UNCHANGED <<mainVars, sessionStart, apiKey, generatedMessage, messages,
                   lastRequest>>

\* handleAnalyze up to its await; the button is disabled while isAnalyzing.
HandleAnalyze ==
    /\ app = "open"
    /\ ~loading
    /\ ~ContinuationPending
    /\ ~isAnalyzing
    /\ generatedMessage = NoMessage
    /\ steps < MaxSteps
    /\ steps' = steps + 1
    /\ LET call == AnalyzeParticipants(data, apiKey)
       IN /\ analyses' = Append(analyses,
                [stage |-> call.stage, result |-> call.result, sent |-> call.sent,
                 active |-> Len(ActiveParticipants(data))])
          /\ serviceCalls' = serviceCalls + call.sent
    /\ isAnalyzing' = TRUE
    /\ analysisResult' = "null"
    /\ lastOp' = [kind |-> "analyze"]
    /\ UNCHANGED <<mainVars, sessionStart, apiKey, generatedMessage, messages,
                   lastRequest>>

\* The service answers a request, or the request fails and the catch block
\* returns the error text.
ServiceResponds(ok) ==
    /\ app = "open"
    /\ ~ContinuationPending
    /\ \E i \in DOMAIN analyses :
        /\ analyses[i].stage = "request"
        /\ analyses' = [analyses EXCEPT
                ![i].stage = "settled",
                ![i].result = IF ok THEN ResponseText ELSE AnalyzeError]
    /\ lastOp' = [kind |-> "response", ok |-> ok]
    /\ UNCHANGED <<mainVars, sessionStart, steps, apiKey, isAnalyzing,
                   analysisResult, serviceCalls, generatedMessage, messages,
                   lastRequest>>

RemoveAt(q, i) == SubSeq(q, 1, i - 1) \o SubSeq(q, i + 1, Len(q))

\* handleAnalyze after its await.
AnalyzeResumes ==
    /\ app = "open"
    /\ \E i \in DOMAIN analyses :
        /\ analyses[i].stage = "settled"
        /\ analysisResult' = analyses[i].result
        /\ lastOp' = [kind |-> "analyzed", active |-> analyses[i].active,
                      sent |-> analyses[i].sent]
        /\ analyses' = RemoveAt(analyses, i)
    /\ isAnalyzing' = FALSE
    /\ UNCHANGED <<mainVars, sessionStart, steps, apiKey, serviceCalls,
                   generatedMessage, messages, lastRequest>>

MessageError == "Erro ao gerar mensagem."

\* generateMessageForParticipant up to its await or return: getClient, then
\* the request.
GenerateMessageForParticipant(participant, hasKey) ==
    IF ~hasKey
    THEN [stage |-> "settled", result |-> MessageError, sent |-> 0]
    ELSE [stage |-> "request", result |-> "null", sent |-> 1]

\* The rows whose message button is rendered: the rows of the page shown that
\* have a name or a whatsapp.
MessageButtons == 
    LET shown == PaginatedData(data, searchTerm, currentPage)
    IN {shown[k] : k \in {j \in DOMAIN shown : IsActiveForStats(shown[j])}}

\* handleGenerateMessage up to its await. The modal that shows a generated
\* message covers the page, the header included.
HandleGenerateMessage(participant) ==
    /\ app = "open"
    /\ ~loading
    /\ ~ContinuationPending
    /\ generatedMessage = NoMessage
    /\ steps < MaxSteps
    /\ steps' = steps + 1
    /\ LET call == GenerateMessageForParticipant(participant, apiKey)
       IN /\ messages' = Append(messages,
                [stage |-> call.stage, result |-> call.result, sent |-> call.sent,
                 id |-> participant.id])
          /\ serviceCalls' = serviceCalls + call.sent
    /\ generatedMessage' = NoMessage
    /\ lastRequest' = participant.id
    /\ lastOp' = [kind |-> "message", id |-> participant.id]
    /\ UNCHANGED <<mainVars, sessionStart, apiKey, isAnalyzing, analysisResult, analyses>>

\* The service answers the request of a message, or the request fails and the
\* catch block returns the error text.
MessageServiceResponds(ok) ==
    /\ app = "open"
    /\ ~ContinuationPending
    /\ \E i \in DOMAIN messages :
        /\ messages[i].stage = "request"
        /\ messages' = [messages EXCEPT
                ![i].stage = "settled",
                ![i].result = IF ok THEN ResponseText ELSE MessageError]
    /\ lastOp' = [kind |-> "messageResponse", ok |-> ok]
    /\ UNCHANGED <<mainVars, sessionStart, steps, apiKey, isAnalyzing,
                   analysisResult, analyses, serviceCalls, generatedMessage,
                   lastRequest>>

\* handleGenerateMessage after its await.
GenerateMessageResumes ==
    /\ app = "open"
    /\ \E i \in DOMAIN messages :
        /\ messages[i].stage = "settled"
        /\ generatedMessage' = [id |-> messages[i].id, text |-> messages[i].result]
        /\ lastOp' = [kind |-> "messaged", sent |-> messages[i].sent]
        /\ messages' = RemoveAt(messages, i)
    /\ UNCHANGED <<mainVars, sessionStart, steps, apiKey, isAnalyzing,
                   analysisResult, analyses, serviceCalls, lastRequest>>

\* The Cancelar button of the modal.
CloseMessage ==
    /\ app = "open"
    /\ ~ContinuationPending
    /\ generatedMessage # NoMessage
    /\ generatedMessage' = NoMessage
    /\ lastOp' = [kind |-> "closeMessage"]
    /\ UNCHANGED <<mainVars, sessionStart, steps, apiKey, isAnalyzing,
                   analysisResult, analyses, serviceCalls, messages, lastRequest>>

\* Rosters for the advisory client: blank rows, rows of spaces, rows with a
\* name and rows with a whatsapp only.
AdvisoryRows ==
    { Participant(0, EmptyStr, EmptyStr, AllFalseWeeks),
      Participant(0, <<" ">>, EmptyStr, AllFalseWeeks),
      Participant(0, Ana, EmptyStr, <<"true", "false", "false", "false", "true">>),
      Participant(0, EmptyStr, <<"1", "9", "9">>, AllFalseWeeks) }

AdvisoryRosters == Rosters(AdvisoryRows)

InitAI == \E r \in AdvisoryRosters, k \in BOOLEAN : Loaded(r) /\ apiKey = k

\* The message button of a row.
MessageClicked == \E p \in MessageButtons : HandleGenerateMessage(p)

NextAI ==
    \/ HandleAnalyze
    \/ \E ok \in BOOLEAN : ServiceResponds(ok)
    \/ AnalyzeResumes
    \/ MessageClicked
    \/ \E ok \in BOOLEAN : MessageServiceResponds(ok)
    \/ GenerateMessageResumes
    \/ CloseMessage

SpecAI == InitAI /\ [][NextAI]_vars

\* The continuation of a settled await is run by the microtask queue.
SpecAIFair == SpecAI /\ WF_vars(AnalyzeResumes) /\ WF_vars(GenerateMessageResumes)

-----------------------------------------------------------------------------
\* C1.  After initialization from any persisted value that parses, every
\* participant of the store has a weeks array of exactly 5 elements: a
\* shorter stored array right-padded with false, a longer one cut to its first
\* 5 elements, and no other shape of weeks reaches the store.
ParsedKinds == {"notArray", "nullItem", "array"}

PadOrCut(w) ==
    [i \in 1..5 |-> IF i <= Len(w) THEN w[i] ELSE "false"]

C1_WeeksFixedAfterLoad ==
    (lastOp.kind = "init" /\ slot.kind \in ParsedKinds) =>
        /\ \A i \in DOMAIN data : data[i].weeksIsArray /\ Len(data[i].weeks) = 5
        /\ slot.kind = "array" =>
                \A i \in DOMAIN data :
                    slot.items[i].weeksIsArray =>
                        data[i].weeks = PadOrCut(slot.items[i].weeks)

\* C5.  When the slot is absent, or present but loading it fails, the store
\* after initialization holds exactly SEED_ROWS blank participants and the
\* application has left the loading state without crashing.
FailedLoadKinds == {"absent", "empty", "unparseable", "notArray", "nullItem"}

IsBlank(p) ==
    /\ p.name = EmptyStr
    /\ p.whatsapp = EmptyStr
    /\ p.weeksIsArray
    /\ p.weeks = <<"false", "false", "false", "false", "false">>

C5_SeedOnAbsentOrFailedLoad ==
    (lastOp.kind = "init" /\ slot.kind \in FailedLoadKinds) =>
        /\ app = "open"
        /\ ~loading
        /\ Len(data) = 50
        /\ \A i \in DOMAIN data : IsBlank(data[i])

C5_Witness ==
    /\ lastOp.kind = "init"
    /\ slot.kind = "unparseable"
    /\ ~loading
    /\ Len(data) = 50

-----------------------------------------------------------------------------
\* C2.  Latest-wins debounce: at most one save is pending; the pending save
\* holds the roster of the most recent store change; after initialization
\* every store change leaves a save pending until it fires; a save that fires
\* writes the current roster and is never followed by a write of an older one.
OnePendingSave == Cardinality(timers) <= 1

PendingSaveIsLatest == \A t \in timers : t.handle = version /\ t.snapshot = data

ChangeIsScheduled ==
    (app = "open" /\ ~loading) =>
        \/ timers # {}
        \/ slot.ver = version /\ slot.items = Stringify(data)

WriteIsLatest ==
    slot' # slot =>
        /\ slot'.ver > slot.ver
        /\ slot'.ver = version
        /\ slot'.items = Stringify(data)

C2_DebounceLatestWins ==
    /\ [](OnePendingSave /\ PendingSaveIsLatest /\ ChangeIsScheduled)
    /\ [][WriteIsLatest]_vars

C2_Witness ==
    /\ lastOp.kind = "save"
    /\ version >= 3
    /\ slot.ver = version
    /\ timers = {}

\* C3.  No write is dropped permanently, whatever events the application
\* undergoes; on a finite run: once a save of this page load has been written,
\* the roster the page holds when it closes is the roster in the slot, so no
\* later change is lost.
SavedThisPageLoad == slot.kind = "array" /\ slot.ver >= sessionStart

C3_NoWriteDroppedAtClose ==
    [][(app = "open" /\ app' = "closed" /\ SavedThisPageLoad) =>
          slot.items = Stringify(data)]_vars

\* C4.  A week toggle with an index outside 0..4 is rejected: the store,
\* and with it the length of every weeks array, is left as it was.
OutOfRangeToggle ==
    /\ steps' = steps + 1
    /\ lastOp'.kind = "week"
    /\ lastOp'.weekIndex \notin 0..4

C4_OutOfRangeRejected ==
    [][OutOfRangeToggle =>
          /\ data' = data
          /\ \A k \in DOMAIN data' : Len(data'[k].weeks) = 5]_vars

\* C6.  No two participants of the store share an id, and handleAddRow appends
\* one row with an id no row had and all-false week flags, the rows before it
\* unchanged and in order.
UniqueIds ==
    \A i, j \in DOMAIN data : i # j => data[i].id # data[j].id

AddAppendsFreshRow ==
    (steps' = steps + 1 /\ lastOp'.kind = "add") =>
        /\ Len(data') = Len(data) + 1
        /\ SubSeq(data', 1, Len(data)) = data
        /\ data'[Len(data')].id \notin Ids(data)
        /\ data'[Len(data')].weeks = <<"false", "false", "false", "false", "false">>

C6_UniqueIds == []UniqueIds /\ [][AddAppendsFreshRow]_vars

C6_Witness ==
    /\ lastOp.kind = "add"
    /\ Len(data) = 51

\* C7.  A week toggle with an index in 0..4 changes flag i of the rows
\* with the given id to the given value and nothing else: no other flag, no
\* name, whatsapp or id, no other row, and not the order of the rows.
ToggleFrame(d, e, id, i, v) ==
    /\ Len(e) = Len(d)
    /\ \A k \in DOMAIN d :
        /\ e[k].id = d[k].id
        /\ e[k].name = d[k].name
        /\ e[k].whatsapp = d[k].whatsapp
        /\ Len(e[k].weeks) = Len(d[k].weeks)
        /\ \A j \in DOMAIN d[k].weeks :
              e[k].weeks[j] = IF d[k].id = id /\ j = i + 1 THEN v ELSE d[k].weeks[j]

InRangeToggle ==
    /\ steps' = steps + 1
    /\ lastOp'.kind = "week"
    /\ lastOp'.weekIndex \in 0..4

C7_ToggleIsolation ==
    [][InRangeToggle =>
          ToggleFrame(data, data', lastOp'.id, lastOp'.weekIndex, lastOp'.value)]_vars

C7_Witness ==
    /\ lastOp.kind = "week"
    /\ lastOp.weekIndex = 4
    /\ lastOp.value = "true"
    /\ Len(data) >= 2
    /\ data[1].weeks = <<"false", "false", "false", "false", "true">>
    /\ data[2].weeks = <<"false", "false", "false", "false", "false">>

\* C9.  After handleAddRow the current page is the last page of the filtered
\* view and the row just added is among the rows shown, whatever the roster
\* and the search term.
IsShown(row) ==
    LET shown == PaginatedData(data, searchTerm, currentPage)
    IN \E k \in DOMAIN shown : shown[k] = row

C9_AddShowsNewRow ==
    lastOp.kind = "add" =>
        /\ currentPage = Max(1, TotalPages(data, searchTerm))
        /\ IsShown(data[Len(data)])

\* C8.  The filtered view holds exactly the rows whose name contains the search
\* term ignoring case or whose whatsapp contains the term, in roster order; the
\* empty term gives the roster itself.
ClaimedMatch(p, t) ==
    \/ Includes(ToLowerCase(p.name), ToLowerCase(t))
    \/ Includes(p.whatsapp, t)

ClaimedFilter(r, t) ==
    IF t = EmptyStr THEN r ELSE SelectSeq(r, LAMBDA p : ClaimedMatch(p, t))

C8_FilterCorrect == FilteredData(data, searchTerm) = ClaimedFilter(data, searchTerm)

\* C10.  An analysis of a roster without active participant ends with the
\* "not enough data" text and has sent no request, with or without credential.
C10_EmptyRosterNotEnoughData ==
    (lastOp.kind = "analyzed" /\ lastOp.active = 0) =>
        /\ analysisResult = NotEnoughData
        /\ lastOp.sent = 0

-----------------------------------------------------------------------------
\* C11.  The active count of the header is the number of participants whose
\* name or whatsapp is non-empty after trimming, and the percentage is
\* round(100 * paid flags of those participants / (5 * that count)).
ClaimedActive(d) ==
    SelectSeq(d, LAMBDA p : Trim(p.name) # EmptyStr \/ Trim(p.whatsapp) # EmptyStr)

ClaimedPaid(d) ==
    LET a == ClaimedActive(d)
        flags == {<<k, j>> \in (DOMAIN a) \X (1..7) :
                      j \in DOMAIN a[k].weeks /\ a[k].weeks[j] = "true"}
    IN Cardinality(flags)

\* round(100 * paid / (5 * count)): the integer nearest to the quotient.
ClaimedPercentage(d) ==
    LET n == Len(ClaimedActive(d))
    IN IF n = 0 THEN 0
       ELSE CHOOSE r \in 0..200 :
                /\ 2 * 5 * n * r <= 2 * 100 * ClaimedPaid(d) + 5 * n
                /\ 2 * 5 * n * (r + 1) > 2 * 100 * ClaimedPaid(d) + 5 * n

C11_StatsOverTrimmedActive ==
    (app = "open" /\ ~loading) =>
        /\ Stats(data).count = Len(ClaimedActive(data))
        /\ Stats(data).percentage = ClaimedPercentage(data)

\* C12.  In every state of the store the percentage of the header is an
\* integer from 0 to 100, and it is 0 when no participant is active.
C12_PercentageBounds ==
    (app = "open" /\ ~loading) =>
        /\ Stats(data).percentage \in 0..100
        /\ Stats(data).count = 0 => Stats(data).percentage = 0

-----------------------------------------------------------------------------
\* C13.  The load migration applied to a stored roster yields a roster in
\* which every weeks array has exactly 5 elements, and applied again to its
\* own result it changes nothing.
C13_MigrationIdempotent ==
    (lastOp.kind = "init" /\ slot.kind = "array") =>
        /\ data = MigratedData(slot.items)
        /\ \A i \in DOMAIN data : data[i].weeksIsArray => Len(data[i].weeks) = 5
        /\ MigratedData(data) = data

C13_Witness ==
    /\ lastOp.kind = "init"
    /\ slot.kind = "array"
    /\ Len(data) = 2
    /\ Len(slot.items[1].weeks) = 6
    /\ slot.items[2].weeksIsArray /\ Len(slot.items[2].weeks) = 1
    /\ data[1].weeks = <<"true", "false", "true", "false", "true">>
    /\ data[2].weeks = <<"true", "false", "false", "false", "false">>

-----------------------------------------------------------------------------
\* C14.  The pages 1, 2, ... of the filtered view, put one after the other,
\* are the filtered view itself; every page but the last has 20 rows; the page
\* count shown is max(1, ceil(n / 20)) for a filtered view of n rows.
RECURSIVE ConcatPages(_, _, _, _)
ConcatPages(d, term, page, last) ==
    IF page > last THEN <<>>
    ELSE PaginatedData(d, term, page) \o ConcatPages(d, term, page + 1, last)

\* ceil(n / 20): the least k with 20 * k >= n.
ClaimedCeil(n) == CHOOSE k \in 0..n : 20 * k >= n /\ \A j \in 0..(k - 1) : 20 * j < n

C14_PaginationCoverage ==
    (app = "open" /\ ~loading) =>
        LET f == FilteredData(data, searchTerm)
            pages == DisplayedTotalPages(data, searchTerm)
        IN /\ ConcatPages(data, searchTerm, 1, pages) = f
           /\ \A p \in 1..(pages - 1) : Len(PaginatedData(data, searchTerm, p)) = 20
           /\ pages = Max(1, ClaimedCeil(Len(f)))

C14_Witness ==
    /\ app = "open"
    /\ ~loading
    /\ Len(FilteredData(data, searchTerm)) = 51
    /\ DisplayedTotalPages(data, searchTerm) = 3
    /\ Len(PaginatedData(data, searchTerm, 3)) = 11

-----------------------------------------------------------------------------
\* C15.  A confirmed delete removes the participant with the given id and
\* nothing else, the others unchanged and in the same order; a declined
\* delete leaves the store as it was and the application running.
RemoveAtIndex(d, k) == [i \in 1..(Len(d) - 1) |-> IF i < k THEN d[i] ELSE d[i + 1]]

WithoutId(d, id) ==
    IF \E k \in DOMAIN d : d[k].id = id
    THEN RemoveAtIndex(d, CHOOSE k \in DOMAIN d : d[k].id = id)
    ELSE d

DeleteStep ==
    /\ steps' = steps + 1
    /\ lastOp'.kind = "delete"

C15_DeleteGated ==
    [][DeleteStep =>
          /\ app' = "open"
          /\ IF lastOp'.confirmed
             THEN data' = WithoutId(data, lastOp'.id)
             ELSE data' = data]_vars

C15_Witness ==
    /\ lastOp.kind = "delete"
    /\ lastOp.confirmed
    /\ lastOp.id = 1
    /\ Len(data) = 1
    /\ data[1].id = 2

-----------------------------------------------------------------------------
\* C16.  A confirmed clear removes the participants whose name and whatsapp
\* are both empty after trimming and keeps every other one, unchanged and in
\* the same relative order; a second clear changes nothing more; a declined
\* clear leaves the store as it was.
OnlySpaces(str) == \A i \in DOMAIN str : str[i] = " "

IsEmptyAfterTrim(p) == OnlySpaces(p.name) /\ OnlySpaces(p.whatsapp)

RECURSIVE KeepNonEmpty(_)
KeepNonEmpty(d) ==
    IF d = <<>> THEN <<>>
    ELSE IF IsEmptyAfterTrim(Head(d)) THEN KeepNonEmpty(Tail(d))
         ELSE <<Head(d)>> \o KeepNonEmpty(Tail(d))

ClearStep ==
    /\ steps' = steps + 1
    /\ lastOp'.kind = "clear"

C16_ClearEmpty ==
    [][ClearStep =>
          /\ app' = "open"
          /\ IF lastOp'.confirmed
             THEN /\ data' = KeepNonEmpty(data)
                  /\ ClearEmpty(data') = data'
             ELSE data' = data]_vars

C16_Witness ==
    /\ lastOp.kind = "clear"
    /\ lastOp.confirmed
    /\ version = 3
    /\ Len(data) = 1
    /\ data[1].id = 3
    /\ data[1].name = <<"A", "n", "a">>

-----------------------------------------------------------------------------
\* C17.  An edit of the name or the whatsapp replaces that field of the
\* participant with the given id and nothing else: not its id, its week
\* flags or its other field, and no other participant; when no participant
\* has the id the store keeps its content and the application keeps running.
FieldFrame(d, e, id, field, value) ==
    /\ Len(e) = Len(d)
    /\ \A k \in DOMAIN d :
          IF d[k].id = id
          THEN /\ e[k].id = d[k].id
               /\ e[k].weeks = d[k].weeks
               /\ e[k].weeksIsArray = d[k].weeksIsArray
               /\ e[k].name = IF field = "name" THEN value ELSE d[k].name
               /\ e[k].whatsapp = IF field = "whatsapp" THEN value ELSE d[k].whatsapp
          ELSE e[k] = d[k]

FieldStep ==
    /\ steps' = steps + 1
    /\ lastOp'.kind \in {"name", "whatsapp"}

C17_FieldIsolation ==
    [][FieldStep =>
          /\ app' = "open"
          /\ FieldFrame(data, data', lastOp'.id, lastOp'.kind, lastOp'.value)]_vars

C17_Witness ==
    /\ lastOp.kind = "whatsapp"
    /\ lastOp.id = 1
    /\ lastOp.value = <<"9", "9">>
    /\ Len(data) = 1
    /\ data[1] = [id |-> 1, name |-> <<"A", "n", "a">>, whatsapp |-> <<"9", "9">>,
                  weeks |-> <<"true", "false", "false", "false", "true">>,
                  weeksIsArray |-> TRUE]

-----------------------------------------------------------------------------
\* C19.  A change of the search term sets the current page to 1, whatever the
\* page, the previous term and the roster were.
SearchStep ==
    /\ steps' = steps + 1
    /\ lastOp'.kind = "search"

C19_SearchResetsPage ==
    [][SearchStep => searchTerm' = lastOp'.term /\ currentPage' = 1]_vars

C19_Witness ==
    /\ lastOp.kind = "search"
    /\ lastOp.page = 3
    /\ lastOp.term = <<"a", "n">>
    /\ searchTerm = <<"a", "n">>
    /\ currentPage = 1

\* C20.  The current page is a page of the filtered view:
\* 1 <= currentPage <= max(1, ceil(filtered count / 20)), after any sequence
\* of add, delete, clear, edit, search and page navigation.
C20_PageInRange ==
    (app = "open" /\ ~loading) =>
        /\ 1 <= currentPage
        /\ currentPage <= Max(1, ClaimedCeil(Len(FilteredData(data, searchTerm))))

-----------------------------------------------------------------------------
\* C18.  Neither advisory operation raises to its caller; without credential
\* no request is sent and the operation returns its error text; a request that
\* fails makes the operation return its error text.
Calls == {analyses[i] : i \in DOMAIN analyses} \cup {messages[i] : i \in DOMAIN messages}

NoCallRaised == \A c \in Calls : c.stage \in {"request", "settled"}

NoRequestWithoutCredential ==
    ~apiKey =>
        /\ serviceCalls = 0
        /\ \A i \in DOMAIN analyses :
              analyses[i].stage = "settled" /\ analyses[i].result = AnalyzeError
        /\ \A i \in DOMAIN messages :
              messages[i].stage = "settled" /\ messages[i].result = MessageError
        /\ lastOp.kind = "analyzed" => analysisResult = AnalyzeError
        /\ lastOp.kind = "messaged" => generatedMessage.text = MessageError

FailedRequestGivesErrorText ==
    /\ (lastOp'.kind = "response" /\ ~lastOp'.ok) =>
            \E i \in DOMAIN analyses :
                /\ analyses[i].stage = "request"
                /\ analyses'[i].stage = "settled"
                /\ analyses'[i].result = AnalyzeError
    /\ (lastOp'.kind = "messageResponse" /\ ~lastOp'.ok) =>
            \E i \in DOMAIN messages :
                /\ messages[i].stage = "request"
                /\ messages'[i].stage = "settled"
                /\ messages'[i].result = MessageError

C18_AdvisoryNeverRaises ==
    /\ [](NoCallRaised /\ NoRequestWithoutCredential)
    /\ [][FailedRequestGivesErrorText]_vars

C18_Witness ==
    /\ ~apiKey
    /\ serviceCalls = 0
    /\ analysisResult = AnalyzeError
    /\ lastOp.kind = "messaged"
    /\ generatedMessage.text = MessageError

-----------------------------------------------------------------------------
\* C21.  When requests for the messages of different participants overlap,
\* the message displayed once every response has arrived is the one of the
\* participant requested last: the response to an earlier request never
\* takes its place.
MessageDisplayed == generatedMessage # NoMessage

C21_LatestMessageWins ==
    (MessageDisplayed /\ messages = <<>>) => generatedMessage.id = lastRequest

-----------------------------------------------------------------------------
\* C22.  No save is pending or written before initialization completes: the
\* slot is never overwritten with the empty roster of the first render, and
\* the first write of a page load holds the roster loaded and migrated from
\* the slot, or the seeded one.
NoSaveWhileLoading == loading => timers = {}

FirstWriteIsLoadedRoster ==
    IF slot.kind = "array"
    THEN slot'.items = Stringify(MigratedData(slot.items))
    ELSE /\ Len(slot'.items) = 50
         /\ \A i \in DOMAIN slot'.items : IsBlank(slot'.items[i])

WriteAfterLoad ==
    slot' # slot =>
        /\ ~loading
        /\ sessionStart >= 1
        /\ slot'.kind = "array"
        /\ slot'.ver >= sessionStart
        /\ slot'.ver = sessionStart => FirstWriteIsLoadedRoster

C22_NoSaveBeforeLoad == []NoSaveWhileLoading /\ [][WriteAfterLoad]_vars

C22_Witness ==
    /\ lastOp.kind = "save"
    /\ sessionStart >= 2
    /\ slot.ver = sessionStart
    /\ Len(slot.items) = 2
    /\ slot.items[1].weeks = <<"true", "true", "true", "true", "false">>

-----------------------------------------------------------------------------
\* C23.  At most one analysis is in flight; isAnalyzing is true exactly while
\* one is; the analyze button acts only while isAnalyzing is false; when an
\* analysis completes, with the text of the service, the error text or the
\* "not enough data" text, isAnalyzing becomes false and the text is stored
\* as analysisResult.
OneAnalysisInFlight == Len(analyses) <= 1

AnalyzingWhileInFlight == isAnalyzing <=> analyses # <<>>

AnalyzeTriggerDisabled ==
    (steps' = steps + 1 /\ lastOp'.kind = "analyze") => ~isAnalyzing /\ isAnalyzing'

AnalysisCompleted ==
    /\ Len(analyses') < Len(analyses)
    /\ lastOp'.kind = "analyzed"

CompletionStoresResult ==
    AnalysisCompleted =>
        /\ ~isAnalyzing'
        /\ analysisResult' = analyses[1].result
        /\ analysisResult' \in {ResponseText, AnalyzeError, NotEnoughData}

AnalysisSettled == \E i \in DOMAIN analyses : analyses[i].stage = "settled"

C23_OneAnalysisAtATime ==
    /\ [](OneAnalysisInFlight /\ AnalyzingWhileInFlight)
    /\ [][AnalyzeTriggerDisabled /\ CompletionStoresResult]_vars
    /\ (AnalysisSettled ~> (~isAnalyzing /\ analysisResult # "null"))

C23_Witness ==
    /\ lastOp.kind = "analyzed"
    /\ ~isAnalyzing
    /\ analysisResult = ResponseText
    /\ serviceCalls = 2

====
